---- MODULE Spec2Model ----
(***************************************************************************)
(* User-management backend: backend/crud.py (data access and the partial   *)
(* update), backend/schemas.py (request and response shapes) and           *)
(* backend/main.py (the five HTTP endpoints).                              *)
(*                                                                         *)
(* The table of users is a set of rows.  Python's None is the string       *)
(* "None", booleans are the strings "True" and "False", and a bcrypt       *)
(* digest is the string "$2b$<salt>$<secret>": an injective term over the  *)
(* salt and the secret, with the salt fresh at every call.  An optional    *)
(* row (the result of .first()) is a sequence: <<>> for None, <<row>> for  *)
(* a row.                                                                  *)
(***************************************************************************)
EXTENDS Integers, Sequences, FiniteSets, TLC

VARIABLES users, nextId, nextSalt, last, pc, pending

vars == <<users, nextId, nextSalt, last, pc, pending>>

(***************************** bounds **************************************)
MaxId == 2
MaxSalt == 3
MaxPatchFields == 2
MaxSkip == 2

(***************************** values **************************************)
None == "None"

Emails == {"a@x.com", "b@x.com"}
Names == {"alice"}
Passwords == {"pw1"}
PatchNames == {"bob"}
PatchEmails == {"a@x.com", None}
PatchPasswords == {"pw1", None}
PatchBools == {"False", None}
PatchIds == {1}
Sessions == {1, 2}

DefaultSkip == 0
DefaultLimit == 100

Columns == {"id", "name", "email", "hashed_password", "is_active"}
DefaultIsActive == "True"

UserUpdateFields == {"email", "password", "is_active"}
UserFields == {"id", "email", "name", "is_active"}

Min(a, b) == IF a <= b THEN a ELSE b

Field(k, v) == [f \in {k} |-> v]
Empty == [f \in {} |-> None]

(************************** request bodies *********************************)
\* POST bodies the UserCreate schema accepts: all three fields, none null.
UserCreates == [name : Names, email : Emails, password : Passwords]

Unset == "<unset>"
Opt(S) == S \cup {Unset}
Part(k, v) == IF v = Unset THEN Empty ELSE Field(k, v)

\* PATCH bodies: JSON objects over the keys a client may send.  "name" and
\* "id" are no fields of UserUpdate; the other keys carry a value or null.
PatchBodies ==
    { b \in { Part("name", n) @@ Part("email", e) @@ Part("password", p)
                  @@ Part("is_active", a) @@ (IF i = 0 THEN Empty ELSE Field("id", i)) :
                n \in Opt(PatchNames), e \in Opt(PatchEmails),
                p \in Opt(PatchPasswords), a \in Opt(PatchBools),
                i \in PatchIds \cup {0} } :
        Cardinality(DOMAIN b) <= MaxPatchFields }

(***************************** the store ***********************************)
Ids(rows) == {r.id : r \in rows}

RECURSIVE TableScan(_)
TableScan(rows) ==
    IF rows = {} THEN <<>>
    ELSE LET m == CHOOSE r \in rows : \A q \in rows : r.id <= q.id
         IN  <<m>> \o TableScan(rows \ {m})

first(q) == IF q = <<>> THEN <<>> ELSE <<q[1]>>

\* db.add + db.commit + db.refresh of a new object: the store assigns the id
\* and the column default of is_active.
Insert(obj, nid) ==
    [c \in Columns |->
        IF c = "id" THEN nid
        ELSE IF c = "is_active" THEN DefaultIsActive
        ELSE obj[c]]

(***************************** crud.py *************************************)
get_password_hash(password, salt) == "$2b$" \o ToString(salt) \o "$" \o password

get_user(rows, user_id) ==
    first(SelectSeq(TableScan(rows), LAMBDA r : r.id = user_id))

get_user_by_email(rows, email) ==
    first(SelectSeq(TableScan(rows), LAMBDA r : r.email = email))

\* get_users with the limit counted from the start of the table, not from
\* the offset
get_users_limit_from_start(rows, skip, limit) ==
    LET q == TableScan(rows)
    IN  SubSeq(q, skip + 1, Min(limit, Len(q)))

get_users(rows, skip, limit) ==
    LET q == TableScan(rows)
    IN  SubSeq(q, skip + 1, Min(skip + limit, Len(q)))

crud_create_user(user, salt, nid) ==
    Insert([name |-> user.name, email |-> user.email,
            hashed_password |-> get_password_hash(user.password, salt)], nid)

\* model_dump of a schema that keeps the keys it does not declare
model_dump_extra_allowed(body) == body

\* user_update.model_dump(exclude_unset=True): the fields of the schema that
\* the body set; keys that are no field of the schema are ignored.
model_dump(body) == [k \in DOMAIN body \cap UserUpdateFields |-> body[k]]

\* the password copied onto the row without the hasher
apply_password_plain(db_user, update_data, salt) ==
    IF "password" \in DOMAIN update_data
    THEN [db_user EXCEPT !.hashed_password = update_data.password]
    ELSE db_user

\* lines 51-54: hash the password and drop the raw key from update_data
apply_password(db_user, update_data, salt) ==
    IF "password" \in DOMAIN update_data
    THEN [db_user EXCEPT !.hashed_password =
              get_password_hash(update_data.password, salt)]
    ELSE db_user

del_password(update_data) ==
    [k \in DOMAIN update_data \ {"password"} |-> update_data[k]]

\* lines 58-59: setattr for every remaining key
setattrs(db_user, update_data) ==
    [c \in DOMAIN db_user |->
        IF c \in DOMAIN update_data THEN update_data[c] ELSE db_user[c]]

\* pwd_context.verify: the digest was made from the secret, under any salt
verify_password(plain_password, hashed_password) ==
    \E salt \in 1..(MaxSalt + 1) :
        hashed_password = get_password_hash(plain_password, salt)

\* The result of update_user: the returned object, whether the call raised,
\* the table after it and the number of hasher calls.
update_user(rows, salt, user_id, user_update) ==
    LET db_user == get_user(rows, user_id) IN
    IF db_user = <<>>
    THEN [result |-> <<>>, raised |-> FALSE, users |-> rows, hashed |-> 0]
    ELSE LET update_data == model_dump(user_update)
             hasPw == "password" \in DOMAIN update_data
         IN  IF hasPw /\ update_data.password = None
             THEN \* passlib rejects a secret that is no string: TypeError
                  [result |-> <<>>, raised |-> TRUE, users |-> rows, hashed |-> 0]
             ELSE LET new == setattrs(apply_password(db_user[1], update_data, salt),
                                      del_password(update_data))
                  IN  [result |-> <<new>>, raised |-> FALSE,
                       users |-> (rows \ {db_user[1]}) \cup {new},
                       hashed |-> IF hasPw THEN 1 ELSE 0]

delete_user(rows, user_id) ==
    LET db_user == get_user(rows, user_id) IN
    IF db_user = <<>>
    THEN [result |-> <<>>, users |-> rows]
    ELSE [result |-> db_user, users |-> rows \ {db_user[1]}]

(***************************** schemas.py **********************************)
\* response_model=schemas.User: email, name and is_active are required and
\* not nullable, so a row holding None is no valid response.
ValidUser(row) ==
    /\ row.email # None
    /\ row.name # None
    /\ row.is_active # None

Project(row) == [k \in UserFields |-> row[k]]

(***************************** main.py *************************************)
Resp(op, id, body, status, rows) ==
    [op |-> op, id |-> id, payload |-> body, status |-> status, body |-> rows]

NoRequest == Resp("none", 0, Empty, 0, <<>>)

ResponseStatus(rows) ==
    IF \A k \in 1..Len(rows) : ValidUser(rows[k]) THEN 200 ELSE 500

\* create_user without the pre-check on the email
email_not_checked(rows, email) == FALSE

email_registered(rows, email) == get_user_by_email(rows, email) # <<>>

\* an endpoint without the test for None
found_status_unchecked(db_user) == ResponseStatus(db_user)

found_status(db_user) == IF db_user = <<>> THEN 404 ELSE ResponseStatus(db_user)

update_status(res) == IF res.raised THEN 500 ELSE found_status(res.result)

create_user(user) ==
    /\ last.op = "none"
    /\ IF email_registered(users, user.email)
       THEN /\ last' = Resp("post", 0, user, 400, <<>>)
            /\ UNCHANGED <<users, nextId, nextSalt>>
       ELSE /\ nextId <= MaxId
            /\ nextSalt <= MaxSalt
            /\ LET db_user == crud_create_user(user, nextSalt, nextId)
               IN  /\ users' = users \cup {db_user}
                   /\ last' = Resp("post", 0, user, ResponseStatus(<<db_user>>), <<db_user>>)
            /\ nextId' = nextId + 1
            /\ nextSalt' = nextSalt + 1
    /\ UNCHANGED <<pc, pending>>

read_users(skip, limit) ==
    /\ last.op = "none"
    /\ LET rows == get_users(users, skip, limit)
       IN  last' = Resp("list", 0, [skip |-> skip, limit |-> limit],
                        ResponseStatus(rows), rows)
    /\ UNCHANGED <<users, nextId, nextSalt, pc, pending>>

read_user(user_id) ==
    /\ last.op = "none"
    /\ LET db_user == get_user(users, user_id)
       IN  last' = Resp("get", user_id, Empty, found_status(db_user), db_user)
    /\ UNCHANGED <<users, nextId, nextSalt, pc, pending>>

update_user_endpoint(user_id, body) ==
    LET res == update_user(users, nextSalt, user_id, body) IN
    /\ last.op = "none"
    /\ nextSalt + res.hashed <= MaxSalt + 1
    /\ users' = res.users
    /\ nextSalt' = nextSalt + res.hashed
    /\ last' = Resp("patch", user_id, body, update_status(res), res.result)
    /\ UNCHANGED <<nextId, pc, pending>>

delete_user_endpoint(user_id) ==
    LET res == delete_user(users, user_id) IN
    /\ last.op = "none"
    /\ users' = res.users
    /\ last' = Resp("delete", user_id, Empty, found_status(res.result), res.result)
    /\ UNCHANGED <<nextId, nextSalt, pc, pending>>

\* get_db: the response is sent and the request's session is closed; the
\* next request starts on a session of its own.
get_db_close ==
    /\ last.op # "none"
    /\ last' = NoRequest
    /\ UNCHANGED <<users, nextId, nextSalt, pc, pending>>

(************************ sequential requests ******************************)
Init ==
    /\ users = {}
    /\ nextId = 1
    /\ nextSalt = 1
    /\ last = NoRequest
    /\ pc = [s \in Sessions |-> "idle"]
    /\ pending = [s \in Sessions |-> Empty]

PathIds == 1..(MaxId + 1)
Skips == 0..MaxSkip
Limits == (0..MaxSkip) \cup {DefaultLimit}

Next ==
    \/ \E user \in UserCreates : create_user(user)
    \/ \E skip \in Skips, limit \in Limits : read_users(skip, limit)
    \/ \E user_id \in PathIds : read_user(user_id)
    \/ \E user_id \in PathIds, body \in PatchBodies : update_user_endpoint(user_id, body)
    \/ \E user_id \in PathIds : delete_user_endpoint(user_id)
    \/ get_db_close

Spec == Init /\ [][Next]_vars

(************************ concurrent POST requests *************************)
\* Two POST /users/ requests, each on a session of its own.  The handler
\* reads the table once (main.py line 25) and writes it once (db.commit(),
\* crud.py line 37); the two steps of one request may enclose steps of the
\* other.
create_user_check(s, user) ==
    /\ pc[s] = "idle"
    /\ pending' = [pending EXCEPT ![s] = user]
    /\ pc' = [pc EXCEPT ![s] =
                 IF email_registered(users, user.email) THEN "rejected" ELSE "checked"]
    /\ UNCHANGED <<users, nextId, nextSalt, last>>

create_user_commit(s) ==
    /\ pc[s] = "checked"
    /\ nextId <= MaxId
    /\ nextSalt <= MaxSalt
    /\ users' = users \cup {crud_create_user(pending[s], nextSalt, nextId)}
    /\ nextId' = nextId + 1
    /\ nextSalt' = nextSalt + 1
    /\ pc' = [pc EXCEPT ![s] = "created"]
    /\ UNCHANGED <<last, pending>>

session_close(s) ==
    /\ pc[s] \in {"rejected", "created"}
    /\ pc' = [pc EXCEPT ![s] = "idle"]
    /\ pending' = [pending EXCEPT ![s] = Empty]
    /\ UNCHANGED <<users, nextId, nextSalt, last>>

ConcNext ==
    \/ \E s \in Sessions, user \in UserCreates : create_user_check(s, user)
    \/ \E s \in Sessions : create_user_commit(s)
    \/ \E s \in Sessions : session_close(s)

ConcSpec == Init /\ [][ConcNext]_vars

(***************************** properties **********************************)
RowOf(rows, id) == CHOOSE r \in rows : r.id = id
Max(a, b) == IF a >= b THEN a ELSE b

\* C1: after any sequence of completed POST, PATCH and DELETE requests no
\* two stored user records have the same email, PATCH requests that set a
\* record's email to the email of another record included.
C1_EmailUnique ==
    \A r1, r2 \in users :
        (r1 # r2 /\ r1.email # None) => r1.email # r2.email

\* C2: POST /users with an email no stored record has succeeds, adds exactly
\* one record and returns it with a store-assigned id; with an email a
\* stored record has it fails with status 400 and leaves the store unchanged.
C2_CreateFreshOrConflict ==
    [][ last'.op = "post" =>
          LET user == last'.payload IN
          IF \A r \in users : r.email # user.email
          THEN /\ last'.status = 200
               /\ Len(last'.body) = 1
               /\ LET row == last'.body[1] IN
                    /\ row \notin users
                    /\ row.id \notin Ids(users)
                    /\ users' = users \cup {row}
                    /\ row.email = user.email
                    /\ row.name = user.name
          ELSE /\ last'.status = 400
               /\ last'.body = <<>>
               /\ users' = users
               /\ nextId' = nextId ]_vars

C2_Witness ==
    /\ last.op = "post"
    /\ last.status = 400
    /\ \E r \in users : r.email = last.payload.email /\ r.id > 1

\* C3: for an existing user, an update whose payload contains only `name`
\* sets the stored name to the supplied value and leaves id, email,
\* is_active and hashed_password unchanged; the returned record and a later
\* get of that id show the new name.
C3_NameOnlyUpdate ==
    [][ (/\ last'.op = "patch"
         /\ last'.id \in Ids(users)
         /\ DOMAIN last'.payload = {"name"}) =>
          /\ last'.status = 200
          /\ Len(last'.body) = 1
          /\ last'.body[1].name = last'.payload.name
          /\ get_user(users', last'.id) = last'.body
          /\ \A c \in Columns \ {"name"} :
                last'.body[1][c] = RowOf(users, last'.id)[c] ]_vars

C5_DeleteReturnsSnapshot ==
    [][ /\ (last'.op = "delete" /\ last'.id \in Ids(users)) =>
              /\ last'.status = 200
              /\ last'.body = <<RowOf(users, last'.id)>>
              /\ users' = users \ {RowOf(users, last'.id)}
        /\ (last'.op = "get" /\ last'.id \notin Ids(users)) =>
              last'.status = 404 ]_vars

C7_ListWindow ==
    last.op = "list" =>
        LET skip == last.payload.skip
            limit == last.payload.limit
            res == last.body
            n == Cardinality(users)
        IN  /\ Len(res) = Min(limit, Max(0, n - skip))
            /\ \A k \in 1..Len(res) :
                  /\ res[k] \in users
                  /\ Cardinality({r \in users : r.id < res[k].id}) = skip + k - 1
            /\ users = {} => res = <<>>
            /\ (skip = DefaultSkip /\ limit = DefaultLimit /\ n <= DefaultLimit) =>
                  /\ Len(res) = n
                  /\ {res[k] : k \in 1..Len(res)} = users

C7_Witness ==
    /\ last.op = "list"
    /\ last.payload.skip = 1
    /\ last.payload.limit = 1
    /\ Cardinality(users) = 2
    /\ Len(last.body) = 1

\* C8: for every existing id and every payload over email, password and
\* is_active, each present field a value or null, PATCH /users/{id} returns
\* status 200 with the updated record: every present non-password field of
\* the stored record equals the payload value, null included, and every
\* absent field is unchanged.
C8_PatchAlwaysOk ==
    [][ (/\ last'.op = "patch"
         /\ last'.id \in Ids(users)
         /\ DOMAIN last'.payload \subseteq UserUpdateFields) =>
          LET p == last'.payload
              old == RowOf(users, last'.id)
          IN  /\ last'.status = 200
              /\ Len(last'.body) = 1
              /\ get_user(users', last'.id) = last'.body
              /\ \A c \in Columns \ {"hashed_password"} :
                    last'.body[1][c] = IF c \in DOMAIN p THEN p[c] ELSE old[c]
              /\ "password" \notin DOMAIN p =>
                    last'.body[1].hashed_password = old.hashed_password ]_vars

\* C9: when two POST /users requests with the same email run concurrently,
\* both pre-checks before either commit, at most one of them creates a
\* record: the store never holds two records with that email.
C9_ConcurrentCreateUnique ==
    \A r1, r2 \in users : r1 # r2 => r1.email # r2.email

\* C10: for an id that resolves to no stored record, GET, PATCH (with any
\* payload) and DELETE /users/{id} return status 404 and leave the store
\* unchanged; nothing is hashed, written or committed.
C10_NotFound ==
    [][ (/\ last'.op \in {"get", "patch", "delete"}
         /\ last'.id \notin Ids(users)) =>
          /\ last'.status = 404
          /\ last'.body = <<>>
          /\ users' = users
          /\ nextSalt' = nextSalt
          /\ nextId' = nextId ]_vars

C10_Witness ==
    /\ last.op = "patch"
    /\ last.status = 404
    /\ "password" \in DOMAIN last.payload
    /\ users # {}

====
